---- MODULE Spec2Model ----
(***************************************************************************)
(* Trajectory viewer (src/senf/trajectory-viewer/app.js): the shared       *)
(* playback state, the 3D view's slider / plane pose / time readout, the   *)
(* chase camera's spherical-coordinate state, the charts with their zoom   *)
(* histories, and the analysis of the two sample stores, as event handlers *)
(* of a single-threaded event loop.  Each action is one handler run to     *)
(* completion (or to the uncaught exception that ends it).                 *)
(***************************************************************************)
EXTENDS Integers, Sequences, FiniteSets, TLC

VARIABLES
    refData,            \* null (NoData) or the reference store, by its length
    testData,           \* null (NoData) or the test store, by its length
    threeScene,         \* FALSE while `threeScene` is null, TRUE after init3DScene
    loops,              \* number of requestAnimationFrame(animate) requests pending
    sceneData,          \* threeScene.data.testNED (empty while threeScene.data is undefined)
    nedLen,             \* NoData while threeScene.data is undefined, else testNED.east.length
    index,              \* threeScene.playback.index
    isPlaying,          \* threeScene.playback.isPlaying
    lastFrameTime,      \* threeScene.playback.lastFrameTime
    sliderMax,          \* time-slider .max
    sliderValue,        \* time-slider .value
    sliderDisabled,     \* time-slider .disabled
    planeVisible,       \* planeGroup.visible
    planeIndex,         \* sample index of the pose last given to the plane (NoData: none yet)
    timeIndex,          \* sample index of the time last written to the readout (NoData: none yet)
    distance,           \* chaseCameraState.distance, in 1/DistScale length units
    azimuth,            \* chaseCameraState.azimuth, in 1/AngScale rad
    elevation,          \* chaseCameraState.elevation, in 1/AngScale rad
    isDragging,         \* chaseCameraState.isDragging
    lastMouseX,         \* chaseCameraState.lastMouseX (pixels)
    lastMouseY,         \* chaseCameraState.lastMouseY (pixels)
    touchStartDistance, \* closure variable touchStartDistance of init3DScene (pixels)
    nTouches,           \* number of fingers currently on the chase view (e.touches.length)
    refStore,           \* the samples of refData (<<>> while it is null or empty)
    testStore,          \* the samples of testData (<<>> while it is null or empty)
    content,            \* the lines of the text parseTrajectoryFile is applied to
    parsed,             \* the store parseTrajectoryFile returned for it
    errors,             \* the error series computePositionError returned last
    analysis,           \* the analysis of the test store analyzeTrajectory returned last
    verdict,            \* title shown in #verdict-card
    issues,             \* issue list renderVerdict built last
    cards,              \* content of #ref-analysis and #test-analysis
    reads,              \* the FileReader reads under way: [type, file], a file being named by its length
    selected,           \* selected[type]: the file the type's input chose last (NoData: none yet)
    testEuler,          \* the Euler angles createAttitudeChart plotted for the test store
    charts,             \* TRUE once charts.attitude, .velocity, .error and .aoa exist
    modalChart,         \* currentModalChartName while modalChart exists, else "none"
    resizeTimers,       \* number of deferred modalChart.resize() callbacks not yet run (up to MaxTimers)
    zoomHistory,        \* zoomHistory[view]: the stack of saved axis ranges
    range,              \* axis range of each view's chart ("none": no chart)
    toast,              \* the notice showToast displayed last
    opView,             \* the view the last zoom, undo or reset was for ("none" otherwise)
    shifted,            \* TRUE iff the last saveZoomState shifted the oldest entry out
    lastOp,             \* the handler that ran last
    threw               \* TRUE iff that handler ended in an uncaught exception

storeVars  == <<refData, testData, refStore, testStore, content, parsed, reads, selected>>
playVars   == <<index, isPlaying, lastFrameTime>>
viewVars   == <<sceneData, nedLen, sliderMax, sliderValue, sliderDisabled, planeVisible, planeIndex, timeIndex>>
cameraVars == <<distance, azimuth, elevation, isDragging, lastMouseX, lastMouseY,
                touchStartDistance, nTouches>>
reportVars == <<errors, analysis, verdict, issues, cards, testEuler>>
chartVars  == <<charts, modalChart, resizeTimers, zoomHistory, range, opView, shifted>>
vars == <<refData, testData, threeScene, loops, sceneData, nedLen, index, isPlaying, lastFrameTime,
          sliderMax, sliderValue, sliderDisabled, planeVisible, planeIndex, timeIndex,
          distance, azimuth, elevation, isDragging, lastMouseX, lastMouseY,
          touchStartDistance, nTouches, refStore, testStore, content, parsed, reads,
          selected, errors,
          analysis, verdict,
          issues, cards, testEuler, charts, modalChart, resizeTimers, zoomHistory, range, toast,
          opView,
          shifted, lastOp, threw>>

-----------------------------------------------------------------------------
(* Bounds of the model *)

\* longest store a load delivers
MaxN == 7
\* deferred resize callbacks are counted up to MaxTimers
MaxTimers == 1
\* at most MaxReads file reads are under way at once
MaxReads == 2
\* quaternion components range over the multiples of 1/MaxQuatSteps in [-1, 1]
MaxQuatSteps == 10
\* frame / performance.now() timestamps range over 0..MaxTime
MaxTime == 1
\* pointer coordinates lie on a grid of (MaxCoord+1) x (MaxCoord+1) points
MaxCoord == 1
\* the grid's pitch is 3 * PixelUnit pixels in x and 4 * PixelUnit in y
PixelUnit == 50
\* during a two-finger gesture each finger is at one of MaxPinch+1 points
MaxPinch == 2
\* wheel events deliver deltaY = k * WheelStep, |k| <= MaxWheel
MaxWheel == 4
\* azimuth is followed while it is within MaxAzimuthTravel (1/AngScale rad) of its start
MaxAzimuthTravel == 30000
\* most fingers on the chase view at once
MaxTouches == 3
\* longest store whose samples the analysis functions are applied to
MaxSamples == 2
\* latitudes and longitudes lie within MaxOffset (1/RadScale rad) of their base
MaxOffset == 1
\* base latitude of the samples, in 1/RadScale rad
LatBase == 40000
\* most data rows of a file parseTrajectoryFile is applied to
MaxRows == 3
\* most fields of a row
MaxFields == 18
\* one view at a time is followed to a full zoom history; meanwhile the other
\* views hold at most MaxOtherDepth snapshots each
MaxOtherDepth == 1

NoData == -1

Max(a, b) == IF a >= b THEN a ELSE b
Min(a, b) == IF a <= b THEN a ELSE b
Abs(a) == IF a < 0 THEN -a ELSE a

\* Math.sqrt(s), to the whole number below (Newton's iteration from r >= sqrt(s))
RECURSIVE SqrtFrom(_, _)
SqrtFrom(s, r) ==
    IF r = 0 THEN 0
    ELSE IF (r + s \div r) \div 2 >= r THEN r
    ELSE SqrtFrom(s, (r + s \div r) \div 2)

\* lengths of the stores parseTrajectoryFile can return: 0 (header only, or no
\* well-formed row) up to MaxN
TestLens == {0, 2, MaxN - 3, MaxN}
RefLens == {0, MaxN}
Times == 0..MaxTime
XStep == 3 * PixelUnit
YStep == 4 * PixelUnit
WheelStep == 20 * PixelUnit
XCoords == {k * XStep : k \in 0..MaxCoord}
YCoords == {k * YStep : k \in 0..MaxCoord}
Points == XCoords \X YCoords
\* finger positions of a two-finger gesture: on one line, a whole number of
\* pixels apart
PinchPoints == {<<k * XStep, k * YStep>> : k \in 0..MaxPinch}
WheelDeltas == {k * WheelStep : k \in (-MaxWheel)..MaxWheel}

-----------------------------------------------------------------------------
(* Program constants *)

\* const speedMultiplier = 5 (animate)
speedMultiplier == 5
\* the time-slider is an <input type=range>; its minimum is the element's default
SliderMin == 0
\* its maximum until update3DTrajectories assigns slider.max
InitialSliderMax == 100
\* the page has the #time-display element that updatePlanePosition writes to
TimeDisplayPresent == TRUE

\* fixed-point resolutions: angles in 1/AngScale rad, distances in 1/DistScale units
AngScale == 10000
DistScale == 20
\* Math.PI, in 1/AngScale rad
PI == 31416
HalfPi == PI \div 2

\* chaseCameraState = { distance: 30, azimuth: Math.PI, elevation: 0.3, ... }
DistanceInit == 30 * DistScale
AzimuthInit == PI
ElevationInit == (3 * AngScale) \div 10
\* Math.max(5, Math.min(200, ...))
DistanceMin == 5 * DistScale
DistanceMax == 200 * DistScale
\* -Math.PI / 2 + 0.1 and Math.PI / 2 - 0.1
ElevMin == (-HalfPi) + AngScale \div 10
ElevMax == HalfPi - AngScale \div 10

\* const R_EARTH = 6378137.0 (metres)
R_EARTH == 6378137
\* fixed-point resolutions of the sample channels: latitude and longitude in
\* 1/RadScale rad, lengths and altitudes in units of LenUnit metres, quaternion
\* components in 1/QuatScale, cosines in 1/CosScale; velocities in whole m/s
RadScale == 100000
LenUnit == 10
QuatScale == 1000
CosScale == 10000
\* a > -1000 && a < 50000
AltFloor == (-1000) \div LenUnit
AltCeiling == 50000 \div LenUnit
\* speedStats.max < 500
SpeedLimit == 500
\* Math.abs(q - 1.0) < 0.01
QuatTol == QuatScale \div 100
\* Math.max() of no arguments is -Infinity
NegInfinity == -1000000000
\* zoomHistory[chartName].length > 20
HistoryCapacity == 20

\* the charts runAnalysis builds, and the views that have a zoom history
ChartNames == {"attitude", "velocity", "error", "aoa"}
Views == ChartNames \cup {"modal"}
\* the views the user zooms, and the charts the user opens in the modal
ZoomedViews == {"attitude", "modal"}
ZoomedCharts == ZoomedViews \cap ChartNames
ModalSources == {"attitude", "aoa"}

-----------------------------------------------------------------------------
(* The range input: the browser keeps .value within [min, max], and at min  *)
(* when max < min.                                                          *)
SliderSet(v, max) == IF max < SliderMin THEN SliderMin ELSE Max(SliderMin, Min(v, max))

\* the values the user can move the slider to
SliderValues == SliderMin..Max(sliderMax, SliderMin)

-----------------------------------------------------------------------------
(* togglePlay() on playback {isPlaying: p, index: i} with testData of length *)
(* n (NoData: null).  An empty store is an object, hence truthy.            *)
TogglePlaying(p, n) == IF n = NoData THEN p ELSE ~p

ToggleIndex(p, i, n) ==
    IF n # NoData /\ ~p /\ i >= n - 1 THEN 0 ELSE i

ToggleFrameTime(p, t, n, now) ==
    IF n # NoData /\ ~p THEN now ELSE t

(* updatePlanePosition(i): returns at once while threeScene.data is          *)
(* undefined; otherwise clamps i against testNED (not against testData),     *)
(* sets the pose from sample j, and writes testData.time[j].toFixed(2) to    *)
(* the readout, which throws a TypeError when testData has no sample j.      *)
PoseIndex(i, ned) == Max(0, Min(i, ned - 1))

UpdatePlaneThrows(i, ned, n) ==
    /\ ned # NoData
    /\ TimeDisplayPresent
    /\ PoseIndex(i, ned) >= n

UpdatePlanePosition(i, ned, n) ==
    IF ned = NoData
    THEN UNCHANGED <<planeIndex, timeIndex>>
    ELSE /\ planeIndex' = PoseIndex(i, ned)
         /\ timeIndex' = IF PoseIndex(i, ned) < n /\ TimeDisplayPresent
                         THEN PoseIndex(i, ned) ELSE timeIndex

-----------------------------------------------------------------------------
(* Sample stores.  A store is a sequence of samples (parseTrajectoryFile     *)
(* pushes one value per channel for each row it accepts).                    *)

Nominal ==
    [lat |-> LatBase, lon |-> 0, alt |-> 100 \div LenUnit,
     vn |-> 30, ve |-> 40, vd |-> 0,
     qw |-> QuatScale, qx |-> 0, qy |-> 0, qz |-> 0]

\* a store of n well-formed rows (none while the store is null)
StoreOfLength(n) == [i \in 1..Max(n, 0) |-> Nominal]

\* samples a reference file is made of
RefSamples ==
    {Nominal,
     [Nominal EXCEPT !.lat = LatBase + MaxOffset, !.lon = MaxOffset,
                     !.alt = 200 \div LenUnit, !.qw = 600, !.qx = 800]}

\* samples a test file is made of
Samples ==
    RefSamples \cup
    {[Nominal EXCEPT !.alt = 60000 \div LenUnit],
     [Nominal EXCEPT !.alt = AltCeiling],
     [Nominal EXCEPT !.alt = AltFloor],
     [Nominal EXCEPT !.alt = AltFloor - 1],
     [Nominal EXCEPT !.vn = 300, !.ve = 400],
     [Nominal EXCEPT !.qw = QuatScale + QuatTol]}

RECURSIVE StoresUpTo(_, _)
StoresUpTo(S, n) ==
    IF n = 0 THEN {<<>>}
    ELSE StoresUpTo(S, n - 1) \cup
         {Append(st, x) : st \in {t \in StoresUpTo(S, n - 1) : Len(t) = n - 1}, x \in S}

RefStores == StoresUpTo(RefSamples, MaxSamples)
TestStores == StoresUpTo(Samples, MaxSamples)

-----------------------------------------------------------------------------
(* Data parsing.  A text is the sequence of its lines, content.trim()       *)
(* .split('\n'), and a line the sequence of its fields, line.trim()         *)
(* .split(/\s+/): a blank line has the one field "".                        *)

\* values.length >= 17
RequiredFields == 17

\* the channels of a store, in the order of their columns
ChannelNames ==
    <<"time", "lat", "lon", "alt", "vn", "ve", "vd", "qw", "qx", "qy", "qz",
      "bx", "by", "bz", "gx", "gy", "gz">>

\* the value parseFloat returns for text that is no number
NaN == -2000000000

\* parseFloat(field)
ParseFloat(field) ==
    CASE field = "0" -> 0
      [] field = "1" -> 1
      [] field = "2" -> 2
      [] OTHER -> NaN

\* every line of the text taken for a data line
KeepHeader(lines) == lines

\* lines.slice(1): skip the header
DataLines(lines) == SubSeq(lines, 2, Len(lines))

\* line.trim().split(/\s+/).map(parseFloat)
RowValues(line) == [i \in 1..Len(line) |-> ParseFloat(line[i])]

\* the store after the forEach callback has run for a line
PushRow(d, line) ==
    LET values == RowValues(line)
    IN  IF Len(values) >= RequiredFields
        THEN [c \in DOMAIN d |->
                Append(d[c], values[CHOOSE i \in 1..RequiredFields : ChannelNames[i] = c])]
        ELSE d

RECURSIVE PushRows(_, _)
\* dataLines.forEach(...)
PushRows(d, lines) ==
    IF lines = <<>> THEN d ELSE PushRows(PushRow(d, Head(lines)), Tail(lines))

\* const data = {time: [], lat: [], ...}
EmptyData == [c \in {ChannelNames[i] : i \in 1..RequiredFields} |-> <<>>]

\* parseTrajectoryFile(content)
ParseTrajectoryFile(lines) == PushRows(EmptyData, DataLines(lines))

\* a line of k fields, each the text v
Row(k, v) == [i \in 1..k |-> v]

BlankLine == Row(1, "")
HeaderLine == ChannelNames

\* the lines a file is made of after its header
FileRows ==
    {BlankLine} \cup
    {Row(k, v) : k \in {1, RequiredFields - 1, RequiredFields, MaxFields}, v \in {"1", "x"}}

RECURSIVE LinesUpTo(_)
\* the sequences of up to n lines
LinesUpTo(n) ==
    IF n = 0 THEN {<<>>}
    ELSE LinesUpTo(n - 1) \cup
         {Append(f, r) : f \in {g \in LinesUpTo(n - 1) : Len(g) = n - 1}, r \in FileRows}

\* the texts parseTrajectoryFile is applied to: the empty text, or a header
\* and up to MaxRows lines the last of which is not blank (content.trim())
Contents ==
    {<<BlankLine>>} \cup
    {<<HeaderLine>> \o rows : rows \in {f \in LinesUpTo(MaxRows) :
                                          f = <<>> \/ f[Len(f)] # BlankLine}}

-----------------------------------------------------------------------------
(* Math utilities and the trajectory analysis *)

\* a / b of two floats, to the whole number nearer zero
TruncDiv(a, b) == IF a >= 0 THEN a \div b ELSE -((-a) \div b)

\* Math.cos(lat), to second order in lat
Cos(lat) == CosScale - (lat * lat) \div (2 * RadScale * (RadScale \div CosScale))

\* Math.sqrt(a * a + b * b + c * c), to the whole number below
Norm3(a, b, c) == SqrtFrom(a * a + b * b + c * c, Abs(a) + Abs(b) + Abs(c))

\* Math.sin at the multiples of 7.5 degrees from 0 to 90 degrees, in
\* 1/QuatScale.  Angles are counted in these steps; the results of Math.atan2
\* and Math.asin are read to the nearest multiple of two steps (15 degrees).
SinTable == <<0, 131, 259, 383, 500, 609, 707, 793, 866, 924, 966, 991, 1000>>
\* Math.PI / 2
RightAngle == Len(SinTable) - 1

\* Math.sin(a)
SinOf(a) ==
    LET r == a % (4 * RightAngle)
    IN  IF r <= RightAngle THEN SinTable[r + 1]
        ELSE IF r <= 2 * RightAngle THEN SinTable[2 * RightAngle - r + 1]
        ELSE IF r <= 3 * RightAngle THEN -SinTable[r - 2 * RightAngle + 1]
        ELSE -SinTable[4 * RightAngle - r + 1]

\* Math.cos(a)
CosOf(a) == SinOf(a + RightAngle)

\* the angles in (-PI, PI] results are read on
AngleGrid == {a \in (1 - 2 * RightAngle)..(2 * RightAngle) : a % 2 = 0}

\* Math.cos and Math.sin on the grid
GridCos == [a \in AngleGrid |-> CosOf(a)]
GridSin == [a \in AngleGrid |-> SinOf(a)]

\* how far (x, y) reaches along the direction of angle a
Along(a, x, y) == GridCos[a] * x + GridSin[a] * y

\* the arguments exchanged: Math.atan2(x, y)
Atan2Swapped(y, x) ==
    IF x = 0 /\ y = 0 THEN 0
    ELSE CHOOSE a \in AngleGrid : \A b \in AngleGrid : Along(a, y, x) >= Along(b, y, x)

\* Math.atan2(y, x): the angle of the grid whose direction is nearest (x, y),
\* the one (x, y) reaches furthest along
Atan2(y, x) ==
    IF x = 0 /\ y = 0 THEN 0
    ELSE CHOOSE a \in AngleGrid : \A b \in AngleGrid : Along(a, x, y) >= Along(b, x, y)

\* the angles in [-PI/2, PI/2] results are read on
PitchGrid == {g \in AngleGrid : Abs(g) <= RightAngle}

\* how far the sine of angle a is from s, in 1/(QuatScale * QuatScale)
SineOff(a, s) == Abs(QuatScale * GridSin[a] - s)

\* Math.asin(s) of s in 1/(QuatScale * QuatScale): the angle of the grid in
\* [-PI/2, PI/2] whose sine is nearest s
Asin(s) ==
    CHOOSE a \in PitchGrid : \A b \in PitchGrid : SineOff(a, s) <= SineOff(b, s)

\* Math.sign(x)
Sign(x) == IF x > 0 THEN 1 ELSE IF x < 0 THEN -1 ELSE 0

\* angle * 180 / Math.PI
ToDegrees(a) == (a * 180) \div (2 * RightAngle)

\* const sinp = 2 * (qw[i] * qy[i] - qz[i] * qx[i])
SinP(q) == 2 * (q.qw * q.qy - q.qz * q.qx)

\* the roll, pitch and yaw quaternionToEuler pushes for sample q, in degrees
EulerOf(q) ==
    LET one == QuatScale * QuatScale
        sinr_cosp == 2 * (q.qw * q.qx + q.qy * q.qz)
        cosr_cosp == one - 2 * (q.qx * q.qx + q.qy * q.qy)
        sinp == SinP(q)
        siny_cosp == 2 * (q.qw * q.qz + q.qx * q.qy)
        cosy_cosp == one - 2 * (q.qy * q.qy + q.qz * q.qz)
    IN  [roll |-> ToDegrees(Atan2(sinr_cosp, cosr_cosp)),
         pitch |-> ToDegrees(IF Abs(sinp) >= one THEN Sign(sinp) * RightAngle
                             ELSE Asin(sinp)),
         yaw |-> ToDegrees(Atan2(siny_cosp, cosy_cosp))]

\* the angles of the samples the files are made of
EulerOfSamples == [s \in Samples |-> EulerOf(s)]

\* quaternionToEuler(qw, qx, qy, qz) of a store's quaternion channels
QuaternionToEuler(store) ==
    [i \in 1..Len(store) |-> IF store[i] \in Samples THEN EulerOfSamples[store[i]]
                             ELSE EulerOf(store[i])]

\* the entry of a test sample against a fixed origin
ErrorEntryFromOrigin(r, t) ==
    [north |-> t.lat - Nominal.lat, east |-> t.lon, down |-> t.alt,
     horizontal |-> Abs(t.lat - Nominal.lat) + Abs(t.lon), error3d |-> Abs(t.alt)]

\* the entry computePositionError pushes for reference sample r and test sample t
ErrorEntry(r, t) ==
    LET ne == TruncDiv((t.lat - r.lat) * R_EARTH, RadScale * LenUnit)
        ee == TruncDiv(TruncDiv((t.lon - r.lon) * R_EARTH, 1000) * Cos(r.lat),
                       ((RadScale * LenUnit) \div 1000) * CosScale)
        de == t.alt - r.alt
    IN  [north |-> ne, east |-> ee, down |-> de,
         horizontal |-> Norm3(ne, ee, 0), error3d |-> Norm3(ne, ee, de)]

\* const n = Math.min(ref.lat.length, test.lat.length)
CommonLength(ref, test) == Min(Len(ref), Len(test))

\* the entry at index i, computed from the samples before it
ErrorEntryOfPrevious(ref, test, i) ==
    ErrorEntry(ref[Max(1, i - 1)], test[Max(1, i - 1)])

\* the entry the loop pushes at index i
ErrorAt(ref, test, i) == ErrorEntry(ref[i], test[i])

\* computePositionError(ref, test): five channels, filled index by index
ComputePositionError(ref, test) ==
    LET n == CommonLength(ref, test)
        e == [i \in 1..n |-> ErrorAt(ref, test, i)]
    IN  [north      |-> [i \in 1..n |-> e[i].north],
         east       |-> [i \in 1..n |-> e[i].east],
         down       |-> [i \in 1..n |-> e[i].down],
         horizontal |-> [i \in 1..n |-> e[i].horizontal],
         error3d    |-> [i \in 1..n |-> e[i].error3d]]

NoErrors == [north |-> <<>>, east |-> <<>>, down |-> <<>>, horizontal |-> <<>>,
             error3d |-> <<>>]

RECURSIVE ArrayMax(_)
\* Math.max(...arr)
ArrayMax(arr) ==
    IF Len(arr) = 0 THEN NegInfinity
    ELSE Max(arr[Len(arr)], ArrayMax(SubSeq(arr, 1, Len(arr) - 1)))

RECURSIVE ArraySum(_)
\* arr.reduce((a, b) => a + b, 0)
ArraySum(arr) ==
    IF Len(arr) = 0 THEN 0
    ELSE arr[Len(arr)] + ArraySum(SubSeq(arr, 1, Len(arr) - 1))

\* arrayStats(arr): the mean is 0 / 0 = NaN for an empty array
ArrayStats(arr) ==
    [meanIsNaN |-> Len(arr) = 0,
     mean |-> IF Len(arr) = 0 THEN 0 ELSE ArraySum(arr) \div Len(arr),
     max |-> ArrayMax(arr)]

\* a => a > -1000 && a < 50000
AltWithinBounds(a) == a > AltFloor /\ a < AltCeiling

\* analyzeTrajectory(data)
AnalyzeTrajectory(data) ==
    LET speed == [i \in 1..Len(data) |-> Norm3(data[i].vn, data[i].ve, data[i].vd)]
        quatNorm == [i \in 1..Len(data) |->
                        SqrtFrom(data[i].qw * data[i].qw + data[i].qx * data[i].qx
                                   + data[i].qy * data[i].qy + data[i].qz * data[i].qz,
                                 Abs(data[i].qw) + Abs(data[i].qx)
                                   + Abs(data[i].qy) + Abs(data[i].qz))]
        speedStats == ArrayStats(speed)
    IN  [samples |-> Len(data),
         initialDefined |-> Len(data) > 0,
         speed |-> speedStats,
         altReasonable |-> \A i \in 1..Len(data) : AltWithinBounds(data[i].alt),
         speedReasonable |-> speedStats.max < SpeedLimit,
         quatNormalized |-> \A i \in 1..Len(data) : Abs(quatNorm[i] - QuatScale) < QuatTol]

NoAnalysis == AnalyzeTrajectory(<<>>)

\* renderAnalysisCard(containerId, analysis, label): analysis.initial.alt is
\* undefined for an empty store, and its toFixed throws a TypeError
RenderAnalysisCardThrows(a) == ~a.initialDefined

\* an issue that is never listed
IssueNever(failed, text) == <<>>

\* if (!testAnalysis.checks.<check>) issues.push(text)
IssueIf(failed, text) == IF failed THEN <<text>> ELSE <<>>

\* renderVerdict(testAnalysis): the issue list
VerdictIssues(a) ==
    IssueIf(~a.altReasonable, "Altitude out of bounds")
      \o IssueIf(~a.speedReasonable, "Speed too high")
      \o IssueIf(~a.quatNormalized, "Quaternion not normalized")

\* renderVerdict(testAnalysis): the title
VerdictTitle(a) ==
    IF a.altReasonable /\ a.speedReasonable /\ a.quatNormalized
    THEN "PHYSICALLY REASONABLE" ELSE "PHYSICALLY UNREASONABLE"

\* a precondition that looks at the reference store only
RejectedWithoutReference(r, t) == r = NoData

\* if (!refData || !testData) return;
AnalysisRejected(r, t) == r = NoData \/ t = NoData

-----------------------------------------------------------------------------
(* The data of the charts.  A series is the sequence of the indices (from 0) *)
(* of the samples whose values it plots.                                     *)

\* Math.floor(n / 500): the series are thinned to about 500 points
DownsampleTarget == 500

\* const step = Math.max(1, Math.floor(n / 500))
ChartStep(n) == Max(1, n \div DownsampleTarget)

\* arr.filter((_, i) => i % step === 0) of an array of n entries
Downsampled(n, step) == [k \in 1..((n + step - 1) \div step) |-> (k - 1) * step]

\* the labels of the chart: times of the reference store (the error chart:
\* of its first min(N_ref, N_test) samples)
ChartLabels(name, ref, test) ==
    IF name = "error"
    THEN Downsampled(CommonLength(ref, test), ChartStep(CommonLength(ref, test)))
    ELSE Downsampled(Len(ref), ChartStep(Len(ref)))

\* the datasets of the chart that are derived from the test store
TestSeries(name, ref, test) ==
    IF name = "error"
    THEN Downsampled(Len(ComputePositionError(ref, test).horizontal),
                     ChartStep(CommonLength(ref, test)))
    ELSE Downsampled(Len(test), ChartStep(Len(ref)))

\* the datasets of the chart that are derived from the reference store alone
\* (the error and the AoA chart have none)
RefSeries(name, ref, test) ==
    IF name \in {"attitude", "velocity"}
    THEN {Downsampled(Len(ref), ChartStep(Len(ref)))}
    ELSE {}

-----------------------------------------------------------------------------
(* The 3D view's trajectories *)

\* the entry convertToNED pushes for sample s, (lat0, lon0, alt0) being the
\* position of sample s0; lengths in LenUnit m
NedEntry(s, s0) ==
    [north |-> TruncDiv((s.lat - s0.lat) * R_EARTH, RadScale * LenUnit),
     east  |-> TruncDiv(TruncDiv((s.lon - s0.lon) * R_EARTH, 1000) * Cos(s0.lat),
                        ((RadScale * LenUnit) \div 1000) * CosScale),
     down  |-> -(s.alt - s0.alt)]

\* convertToNED(store.lat, store.lon, store.alt, origin.lat[0], origin.lon[0],
\* origin.alt[0])
ConvertToNED(store, origin) == [i \in 1..Len(store) |-> NedEntry(store[i], origin[1])]

\* const refNED = convertToNED(refData.lat, ..., refData.lat[0], ...), which
\* the reference line and its markers are drawn from
RefNED(ref, test) == ConvertToNED(ref, ref)

\* const testNED = convertToNED(testData.lat, ..., testData.lat[0], ...)
TestNED(ref, test) == ConvertToNED(test, test)

(* update3DTrajectories(), called with playback {index: i0, isPlaying: p0}  *)
(* once threeScene' is decided.                                              *)
Update3DTrajectories(i0, p0) ==
    IF threeScene' /\ refData # NoData /\ testData # NoData
    THEN /\ sceneData' = TestNED(refStore, testStore)
         /\ nedLen' = testData
         /\ index' = 0
         /\ isPlaying' = FALSE
         /\ sliderMax' = testData - 1
         /\ sliderValue' = SliderSet(0, testData - 1)
         /\ sliderDisabled' = FALSE
         /\ planeVisible' = TRUE
         /\ UpdatePlanePosition(0, testData, testData)
         /\ threw' = UpdatePlaneThrows(0, testData, testData)
    ELSE /\ index' = i0
         /\ isPlaying' = p0
         /\ UNCHANGED viewVars
         /\ threw' = FALSE

-----------------------------------------------------------------------------
Init ==
    /\ refData = NoData
    /\ testData = NoData
    /\ threeScene = FALSE
    /\ loops = 0
    /\ sceneData = <<>>
    /\ nedLen = NoData
    /\ index = 0
    /\ isPlaying = FALSE
    /\ lastFrameTime = 0
    /\ sliderMax = InitialSliderMax
    /\ sliderValue = SliderMin
    /\ sliderDisabled = TRUE
    /\ planeVisible = FALSE
    /\ planeIndex = NoData
    /\ timeIndex = NoData
    /\ distance = DistanceInit
    /\ azimuth = AzimuthInit
    /\ elevation = ElevationInit
    /\ isDragging = FALSE
    /\ lastMouseX = 0
    /\ lastMouseY = 0
    /\ touchStartDistance = 0
    /\ nTouches = 0
    /\ refStore = <<>>
    /\ testStore = <<>>
    /\ content = <<>>
    /\ parsed = EmptyData
    /\ reads = {}
    /\ selected = [reference |-> NoData, test |-> NoData]
    /\ errors = NoErrors
    /\ analysis = NoAnalysis
    /\ verdict = "none"
    /\ issues = <<>>
    /\ cards = [ref |-> "none", test |-> "none"]
    /\ testEuler = <<>>
    /\ charts = FALSE
    /\ modalChart = "none"
    /\ resizeTimers = 0
    /\ zoomHistory = [v \in Views |-> <<>>]
    /\ range = [v \in Views |-> "none"]
    /\ toast = "none"
    /\ opView = "none"
    /\ shifted = FALSE
    /\ lastOp = "init"
    /\ threw = FALSE

-----------------------------------------------------------------------------
(* Loads *)

\* handleFileUpload(event, 'reference'): reader.onload
LoadReference(n) ==
    /\ refData' = n
    /\ refStore' = StoreOfLength(n)
    /\ toast' = "Loaded"
    /\ lastOp' = "loadReference"
    /\ threw' = FALSE
    /\ UNCHANGED <<testData, testStore, content, parsed, reads, selected, threeScene, loops, playVars, viewVars, cameraVars,
                   reportVars, chartVars>>

\* handleFileUpload(event, 'test'): reader.onload
LoadTest(n) ==
    /\ testData' = n
    /\ testStore' = StoreOfLength(n)
    /\ toast' = "Loaded"
    /\ lastOp' = "loadTest"
    /\ threw' = FALSE
    /\ UNCHANGED <<refData, refStore, content, parsed, reads, selected, threeScene, loops, playVars, viewVars, cameraVars,
                   reportVars, chartVars>>

\* .btn-sample click: both stores from the embedded sample data
LoadSample(nr, nt) ==
    /\ refData' = nr
    /\ testData' = nt
    /\ refStore' = StoreOfLength(nr)
    /\ testStore' = StoreOfLength(nt)
    /\ toast' = "Loaded"
    /\ lastOp' = "loadSample"
    /\ threw' = FALSE
    /\ UNCHANGED <<content, parsed, reads, selected, threeScene, loops, playVars, viewVars, cameraVars, reportVars,
                   chartVars>>

-----------------------------------------------------------------------------
(* File inputs.  A change event starts a read of the chosen file with a     *)
(* FileReader of its own; the reads complete in any order.                  *)

UploadTypes == {"reference", "test"}

\* handleFileUpload(event, type) up to reader.readAsText(file), the file
\* chosen having n well-formed rows
SelectFile(type, n) ==
    /\ Cardinality(reads) < MaxReads
    /\ reads' = reads \cup {[type |-> type, file |-> n]}
    /\ selected' = [selected EXCEPT ![type] = n]
    /\ lastOp' = "selectFile"
    /\ threw' = FALSE
    /\ UNCHANGED <<refData, testData, refStore, testStore, content, parsed, threeScene, loops,
                   playVars, viewVars, cameraVars, reportVars, chartVars, toast>>

\* reader.onload of the read r
ReaderOnload(r) ==
    /\ r \in reads
    /\ reads' = reads \ {r}
    /\ IF r.type = "reference"
       THEN /\ refData' = r.file
            /\ refStore' = StoreOfLength(r.file)
            /\ lastOp' = "loadReference"
            /\ UNCHANGED <<testData, testStore>>
       ELSE /\ testData' = r.file
            /\ testStore' = StoreOfLength(r.file)
            /\ lastOp' = "loadTest"
            /\ UNCHANGED <<refData, refStore>>
    /\ toast' = "Loaded"
    /\ threw' = FALSE
    /\ UNCHANGED <<content, parsed, selected, threeScene, loops, playVars, viewVars, cameraVars,
                   reportVars, chartVars>>

\* files are chosen and read, nothing else happens
NextUpload ==
    \/ \E type \in UploadTypes, n \in TestLens : SelectFile(type, n)
    \/ \E type \in UploadTypes, n \in TestLens : ReaderOnload([type |-> type, file |-> n])

-----------------------------------------------------------------------------
(* 3D tab, analysis, camera reset *)

\* the scene is built at every switch to the 3D tab
SceneAlwaysMissing(scene) == TRUE

\* tabId === '3d' && !threeScene
SceneMissing(scene) == ~scene

\* switchTab('3d'): init3DScene() on first use, whose animate(0) renders one
\* paused frame, then update3DTrajectories() when both stores are loaded
SwitchTab3D ==
    /\ lastOp' = "switchTab"
    /\ UNCHANGED <<storeVars, reportVars, chartVars, toast>>
    /\ IF SceneMissing(threeScene)
       THEN /\ threeScene' = TRUE
            /\ loops' = loops + 1
            /\ lastFrameTime' = 0
            /\ distance' = DistanceInit
            /\ azimuth' = AzimuthInit
            /\ elevation' = ElevationInit
            /\ isDragging' = FALSE
            /\ lastMouseX' = 0
            /\ lastMouseY' = 0
            /\ UNCHANGED <<touchStartDistance, nTouches>>
            /\ Update3DTrajectories(0, FALSE)
       ELSE /\ threw' = FALSE
            /\ UNCHANGED <<threeScene, loops, playVars, viewVars, cameraVars>>

\* runAnalysis(): analyzeTrajectory of an empty store yields initial.alt =
\* undefined, and renderAnalysisCard throws on its toFixed before any chart
\* or the 3D view is touched
RunAnalysis ==
    /\ lastOp' = "runAnalysis"
    /\ UNCHANGED <<storeVars, threeScene, loops, lastFrameTime, cameraVars, modalChart, resizeTimers,
                   zoomHistory, opView, shifted>>
    /\ IF AnalysisRejected(refData, testData)
       THEN /\ threw' = FALSE
            /\ UNCHANGED <<index, isPlaying, viewVars, reportVars, charts, range, toast>>
       ELSE IF RenderAnalysisCardThrows(AnalyzeTrajectory(refStore))
       THEN /\ threw' = TRUE
            /\ UNCHANGED <<index, isPlaying, viewVars, reportVars, charts, range, toast>>
       ELSE IF RenderAnalysisCardThrows(AnalyzeTrajectory(testStore))
       THEN /\ threw' = TRUE
            /\ cards' = [cards EXCEPT !.ref = "statistics"]
            /\ UNCHANGED <<index, isPlaying, viewVars, errors, analysis, verdict, issues,
                           testEuler, charts, range, toast>>
       ELSE /\ cards' = [ref |-> "statistics", test |-> "statistics"]
            /\ errors' = ComputePositionError(refStore, testStore)
            /\ analysis' = AnalyzeTrajectory(testStore)
            /\ verdict' = VerdictTitle(analysis')
            /\ issues' = VerdictIssues(analysis')
            /\ testEuler' = QuaternionToEuler(testStore)
            /\ charts' = TRUE
            /\ range' = [v \in Views |-> IF v \in ChartNames THEN "original" ELSE range[v]]
            /\ Update3DTrajectories(index, isPlaying)
            /\ toast' = IF threw' THEN toast ELSE "Analysis complete!"

\* #btn-reset-camera click
ResetCamera ==
    /\ lastOp' = "resetCamera"
    /\ UNCHANGED <<storeVars, threeScene, loops, lastFrameTime, cameraVars, reportVars, chartVars,
                   toast>>
    /\ Update3DTrajectories(index, isPlaying)

-----------------------------------------------------------------------------
(* Playback *)

\* slider.oninput with the slider moved to v
Scrub(v) ==
    /\ threeScene
    /\ ~sliderDisabled
    /\ v \in SliderValues
    /\ lastOp' = "scrub"
    /\ sliderValue' = v
    /\ UNCHANGED <<storeVars, threeScene, loops, sceneData, nedLen, sliderMax, sliderDisabled, planeVisible,
                   cameraVars, reportVars, chartVars, toast>>
    /\ IF testData = NoData
       THEN /\ threw' = FALSE
            /\ UNCHANGED <<playVars, planeIndex, timeIndex>>
       ELSE /\ index' = v
            /\ UpdatePlanePosition(v, nedLen, testData)
            /\ threw' = UpdatePlaneThrows(v, nedLen, testData)
            /\ IF ~threw' /\ isPlaying
               THEN /\ isPlaying' = TogglePlaying(isPlaying, testData)
                    /\ UNCHANGED lastFrameTime
               ELSE UNCHANGED <<isPlaying, lastFrameTime>>

\* playBtn.onclick = togglePlay, with performance.now() = now
TogglePlay(now) ==
    /\ threeScene
    /\ lastOp' = "togglePlay"
    /\ threw' = FALSE
    /\ isPlaying' = TogglePlaying(isPlaying, testData)
    /\ index' = ToggleIndex(isPlaying, index, testData)
    /\ lastFrameTime' = ToggleFrameTime(isPlaying, lastFrameTime, testData, now)
    /\ UNCHANGED <<storeVars, threeScene, loops, viewVars, cameraVars, reportVars, chartVars,
                   toast>>

\* the index of a playback that does not advance
StayAtIndex(i, n) == Min(n - 1, i)

\* the index the playing branch of animate stores
AdvanceIndex(i, n) == Min(n - 1, i + speedMultiplier)

\* the callback leaves no request for the next frame
LoopsWithoutRequest(l) == l - 1

\* the frame takes the request that called animate, and animate begins with
\* requestAnimationFrame(animate)
LoopsAfterFrame(l) == (l - 1) + 1

\* animate(time): one rendering frame
Tick(time) ==
    /\ threeScene
    /\ loops > 0
    /\ loops' = LoopsAfterFrame(loops)
    /\ lastOp' = "tick"
    /\ UNCHANGED <<storeVars, threeScene, sceneData, nedLen, sliderMax, sliderDisabled, planeVisible,
                   cameraVars, reportVars, chartVars, toast>>
    /\ IF isPlaying /\ testData # NoData
       THEN /\ lastFrameTime' = time
            /\ index' = AdvanceIndex(index, testData)
            /\ sliderValue' = SliderSet(index', sliderMax)
            /\ UpdatePlanePosition(index', nedLen, testData)
            /\ threw' = UpdatePlaneThrows(index', nedLen, testData)
            /\ isPlaying' = IF ~threw' /\ index' >= testData - 1
                            THEN TogglePlaying(isPlaying, testData)
                            ELSE isPlaying
       ELSE /\ threw' = FALSE
            /\ UNCHANGED <<playVars, sliderValue, planeIndex, timeIndex>>

NextPlayback ==
    \/ \E n \in RefLens : LoadReference(n)
    \/ \E n \in TestLens : LoadTest(n)
    \/ \E nr \in RefLens \ {0}, nt \in TestLens \ {0} : LoadSample(nr, nt)
    \/ SwitchTab3D
    \/ RunAnalysis
    \/ ResetCamera
    \/ \E v \in 0..Max(MaxN, InitialSliderMax) : Scrub(v)
    \/ \E now \in Times : TogglePlay(now)
    \/ \E time \in Times : Tick(time)


\* the playback handlers, with the sample data or an uploaded test file, all
\* timestamps being 0
NextFrames ==
    \/ LoadSample(MaxN, MaxN)
    \/ \E n \in TestLens : LoadTest(n)
    \/ SwitchTab3D
    \/ RunAnalysis
    \/ ResetCamera
    \/ \E v \in 0..MaxN : Scrub(v)
    \/ TogglePlay(0)
    \/ Tick(0)

-----------------------------------------------------------------------------
(* Chase camera: the listeners init3DScene adds to rendererChase.domElement *)

\* deltaX * 0.01 and deltaY * 0.01, in 1/AngScale rad
AngleDelta(pixels) == (pixels * AngScale) \div 100

\* ClampElevation without its upper limit
ClampElevationNoCeiling(e) == Max(ElevMin, e)

\* Math.max(-Math.PI / 2 + 0.1, Math.min(Math.PI / 2 - 0.1, e))
ClampElevation(e) == Max(ElevMin, Min(ElevMax, e))

\* ClampDistance without its lower limit
ClampDistanceNoFloor(d) == Min(DistanceMax, d)

\* Math.max(5, Math.min(200, d))
ClampDistance(d) == Max(DistanceMin, Min(DistanceMax, d))

\* e.deltaY * 0.05, in 1/DistScale units
WheelDelta(deltaY) == (deltaY * DistScale) \div 20

\* (touchStartDistance - distance) * 0.2, in 1/DistScale units
PinchDelta(pixels) == (pixels * DistScale) \div 5

\* Math.sqrt(dx * dx + dy * dy), to the whole pixel below
Hypot(dx, dy) == SqrtFrom(dx * dx + dy * dy, Abs(dx) + Abs(dy))

\* the rotation both drag handlers apply for a pointer now at <<x, y>>
Rotate(x, y) ==
    /\ azimuth' = azimuth + AngleDelta(x - lastMouseX)
    /\ Abs(azimuth' - AzimuthInit) <= MaxAzimuthTravel
    /\ elevation' = ClampElevation(elevation + AngleDelta(y - lastMouseY))
    /\ lastMouseX' = x
    /\ lastMouseY' = y

idleVars == <<storeVars, threeScene, loops, playVars, viewVars, reportVars, chartVars, toast>>

MouseDown(x, y) ==
    /\ threeScene
    /\ lastOp' = "mousedown"
    /\ threw' = FALSE
    /\ isDragging' = TRUE
    /\ lastMouseX' = x
    /\ lastMouseY' = y
    /\ UNCHANGED <<idleVars, distance, azimuth, elevation, touchStartDistance, nTouches>>

MouseMove(x, y) ==
    /\ threeScene
    /\ lastOp' = "mousemove"
    /\ threw' = FALSE
    /\ UNCHANGED <<idleVars, distance, isDragging, touchStartDistance, nTouches>>
    /\ IF ~isDragging
       THEN UNCHANGED <<azimuth, elevation, lastMouseX, lastMouseY>>
       ELSE Rotate(x, y)

MouseUp ==
    /\ threeScene
    /\ lastOp' = "mouseup"
    /\ threw' = FALSE
    /\ isDragging' = FALSE
    /\ UNCHANGED <<idleVars, distance, azimuth, elevation, lastMouseX, lastMouseY,
                   touchStartDistance, nTouches>>

MouseLeave ==
    /\ threeScene
    /\ lastOp' = "mouseleave"
    /\ threw' = FALSE
    /\ isDragging' = FALSE
    /\ UNCHANGED <<idleVars, distance, azimuth, elevation, lastMouseX, lastMouseY,
                   touchStartDistance, nTouches>>

Wheel(deltaY) ==
    /\ threeScene
    /\ lastOp' = "wheel"
    /\ threw' = FALSE
    /\ distance' = ClampDistance(distance + WheelDelta(deltaY))
    /\ UNCHANGED <<idleVars, azimuth, elevation, isDragging, lastMouseX, lastMouseY,
                   touchStartDistance, nTouches>>

\* touchstart with m fingers now down, touches[0] at p0 and touches[1] at p1
TouchStart(m, p0, p1) ==
    /\ threeScene
    /\ m \in (nTouches + 1)..MaxTouches
    /\ lastOp' = "touchstart"
    /\ threw' = FALSE
    /\ nTouches' = m
    /\ UNCHANGED <<idleVars, distance, azimuth, elevation>>
    /\ IF m = 1
       THEN /\ isDragging' = TRUE
            /\ lastMouseX' = p0[1]
            /\ lastMouseY' = p0[2]
            /\ UNCHANGED touchStartDistance
       ELSE IF m = 2
       THEN /\ isDragging' = FALSE
            /\ touchStartDistance' = Hypot(p0[1] - p1[1], p0[2] - p1[2])
            /\ UNCHANGED <<lastMouseX, lastMouseY>>
       ELSE UNCHANGED <<isDragging, lastMouseX, lastMouseY, touchStartDistance>>

\* touchmove with the nTouches fingers down, touches[0] at p0 and touches[1] at p1
TouchMove(p0, p1) ==
    /\ threeScene
    /\ nTouches >= 1
    /\ lastOp' = "touchmove"
    /\ threw' = FALSE
    /\ UNCHANGED <<idleVars, isDragging, nTouches>>
    /\ IF nTouches = 1 /\ isDragging
       THEN /\ Rotate(p0[1], p0[2])
            /\ UNCHANGED <<distance, touchStartDistance>>
       ELSE IF nTouches = 2
       THEN /\ UNCHANGED <<azimuth, elevation, lastMouseX, lastMouseY>>
            /\ IF touchStartDistance > 0
               THEN /\ touchStartDistance' = Hypot(p0[1] - p1[1], p0[2] - p1[2])
                    /\ distance' = ClampDistance(distance
                          + PinchDelta(touchStartDistance - touchStartDistance'))
               ELSE UNCHANGED <<distance, touchStartDistance>>
       ELSE UNCHANGED <<distance, azimuth, elevation, lastMouseX, lastMouseY,
                        touchStartDistance>>

\* touchend with m fingers left down, touches[0] at p0
TouchEnd(m, p0) ==
    /\ threeScene
    /\ m \in 0..(nTouches - 1)
    /\ lastOp' = "touchend"
    /\ threw' = FALSE
    /\ nTouches' = m
    /\ UNCHANGED <<idleVars, distance, azimuth, elevation>>
    /\ IF m = 0
       THEN /\ isDragging' = FALSE
            /\ touchStartDistance' = 0
            /\ UNCHANGED <<lastMouseX, lastMouseY>>
       ELSE IF m = 1
       THEN /\ isDragging' = TRUE
            /\ lastMouseX' = p0[1]
            /\ lastMouseY' = p0[2]
            /\ touchStartDistance' = 0
       ELSE UNCHANGED <<isDragging, lastMouseX, lastMouseY, touchStartDistance>>

\* touchcancel with m fingers left down
TouchCancel(m) ==
    /\ threeScene
    /\ m \in 0..(nTouches - 1)
    /\ lastOp' = "touchcancel"
    /\ threw' = FALSE
    /\ nTouches' = m
    /\ isDragging' = FALSE
    /\ touchStartDistance' = 0
    /\ UNCHANGED <<idleVars, distance, azimuth, elevation, lastMouseX, lastMouseY>>

NextCamera ==
    \/ SwitchTab3D
    \/ \E p \in Points : MouseDown(p[1], p[2])
    \/ \E p \in Points : MouseMove(p[1], p[2])
    \/ MouseUp
    \/ MouseLeave
    \/ \E deltaY \in WheelDeltas : Wheel(deltaY)
    \/ \E m \in 1..MaxTouches :
          \/ m # 2 /\ \E p \in Points : TouchStart(m, p, p)
          \/ m = 2 /\ \E p0, p1 \in PinchPoints : TouchStart(m, p0, p1)
    \/ \/ nTouches # 2 /\ \E p \in Points : TouchMove(p, p)
       \/ nTouches = 2 /\ \E p0, p1 \in PinchPoints : TouchMove(p0, p1)
    \/ \E m \in 0..MaxTouches, p \in Points : TouchEnd(m, p)
    \/ \E m \in 0..MaxTouches : TouchCancel(m)

\* the chase view while no mouse button is ever pressed on it: the pointer
\* moves over it, enters and leaves, and fingers touch it
NextHover ==
    \/ SwitchTab3D
    \/ \E p \in Points : MouseMove(p[1], p[2])
    \/ MouseUp
    \/ MouseLeave
    \/ \E m \in 1..MaxTouches :
          \/ m # 2 /\ \E p \in Points : TouchStart(m, p, p)
          \/ m = 2 /\ \E p0, p1 \in PinchPoints : TouchStart(m, p0, p1)
    \/ \/ nTouches # 2 /\ \E p \in Points : TouchMove(p, p)
       \/ nTouches = 2 /\ \E p0, p1 \in PinchPoints : TouchMove(p0, p1)
    \/ \E m \in 0..MaxTouches, p \in Points : TouchEnd(m, p)
    \/ \E m \in 0..MaxTouches : TouchCancel(m)

\* the chase view under fingers only: up to MaxTouches fingers touch it, move
\* and lift, touches[0] and touches[1] being at two different points of the
\* pinch diagonal
NextTouch ==
    \/ SwitchTab3D
    \/ \E m \in 1..MaxTouches :
          \/ m = 1 /\ \E p \in Points : TouchStart(m, p, p)
          \/ m >= 2 /\ \E p0, p1 \in PinchPoints : p0 # p1 /\ TouchStart(m, p0, p1)
    \/ \/ nTouches = 1 /\ \E p \in Points : TouchMove(p, p)
       \/ nTouches >= 2 /\ \E p0, p1 \in PinchPoints : p0 # p1 /\ TouchMove(p0, p1)
    \/ \E m \in 0..MaxTouches, p \in Points : TouchEnd(m, p)
    \/ \E m \in 0..MaxTouches : TouchCancel(m)

-----------------------------------------------------------------------------
(* Charts and their zoom histories *)

\* getChartName(chart) finds a name: the chart of view v exists
ChartPresent(v) == IF v = "modal" THEN modalChart # "none" ELSE charts

\* saveZoomState without the eviction
SaveZoomStateUnbounded(h, state) == Append(h, state)

\* saveZoomState(chartName, chart) on the stack h, the chart being at `state`
SaveZoomState(h, state) ==
    IF Len(Append(h, state)) > HistoryCapacity THEN Tail(Append(h, state))
    ELSE Append(h, state)

\* the entry at the bottom of the stack
OldestState(h) == h[1]

\* zoomHistory[chartName].pop(): the entry returned
PoppedState(h) == h[Len(h)]

\* a reset that keeps the stack
KeepHistory(h) == h

\* zoomHistory[chartName] = []
ClearedHistory(h) == <<>>

\* an assignment to every view's entry
AssignAll(f, v, x) == [w \in DOMAIN f |-> x]

\* zoomHistory[v] = x, chart v's scales = x: the other views' entries stay
Assign(f, v, x) == [f EXCEPT ![v] = x]

\* exploring: the zoom histories are shallow enough to rebuild charts
Shallow == \A w \in Views : Len(zoomHistory[w]) <= MaxOtherDepth

\* zoomPanOptions.zoom.onZoomStart for the chart of view v
ZoomStart(v) ==
    /\ ChartPresent(v)
    /\ \/ Len(zoomHistory[v]) < MaxOtherDepth
       \/ \A w \in Views \ {v} : Len(zoomHistory[w]) <= MaxOtherDepth
    /\ lastOp' = "zoomStart"
    /\ opView' = v
    /\ threw' = FALSE
    /\ zoomHistory' = Assign(zoomHistory, v, SaveZoomState(zoomHistory[v], range[v]))
    /\ shifted' = (Len(zoomHistory[v]) + 1 > HistoryCapacity)
    /\ UNCHANGED <<storeVars, threeScene, loops, playVars, viewVars, cameraVars, reportVars,
                   charts, modalChart, resizeTimers, range, toast>>

\* the zoom plugin narrows the axes of the chart of view v
Zoom(v) ==
    /\ ChartPresent(v)
    /\ range[v] = "original"
    /\ lastOp' = "zoom"
    /\ opView' = v
    /\ threw' = FALSE
    /\ range' = Assign(range, v, "zoomed")
    /\ UNCHANGED <<storeVars, threeScene, loops, playVars, viewVars, cameraVars, reportVars, shifted,
                   charts, modalChart, resizeTimers, zoomHistory, toast>>

\* undoZoom(chartName), and the notice its caller shows
UndoZoom(v) ==
    /\ opView' = v
    /\ threw' = FALSE
    /\ UNCHANGED <<storeVars, threeScene, loops, playVars, viewVars, cameraVars, reportVars, shifted,
                   charts, modalChart, resizeTimers>>
    /\ IF ~ChartPresent(v) \/ Len(zoomHistory[v]) = 0
       THEN /\ toast' = "No zoom history to undo"
            /\ UNCHANGED <<zoomHistory, range>>
       ELSE /\ range' = Assign(range, v, PoppedState(zoomHistory[v]))
            /\ zoomHistory' = Assign(zoomHistory, v,
                                     SubSeq(zoomHistory[v], 1, Len(zoomHistory[v]) - 1))
            /\ toast' = "Undid zoom"

\* .btn-undo-zoom click, data-chart = name
BtnUndoZoom(name) ==
    /\ name \in ChartNames
    /\ lastOp' = "undoZoom"
    /\ UndoZoom(name)

\* #modal-undo-zoom click
ModalUndoZoom ==
    /\ lastOp' = "undoZoom"
    /\ UndoZoom("modal")

\* .btn-reset-zoom click, data-chart = name
BtnResetZoom(name) ==
    /\ name \in ChartNames
    /\ lastOp' = "resetZoom"
    /\ opView' = name
    /\ threw' = FALSE
    /\ UNCHANGED <<storeVars, threeScene, loops, playVars, viewVars, cameraVars, reportVars, shifted,
                   charts, modalChart, resizeTimers>>
    /\ IF charts
       THEN /\ range' = Assign(range, name, "original")
            /\ zoomHistory' = Assign(zoomHistory, name, ClearedHistory(zoomHistory[name]))
            /\ toast' = "Reset zoom"
       ELSE UNCHANGED <<zoomHistory, range, toast>>

\* #modal-reset-zoom click
ModalResetZoom ==
    /\ lastOp' = "resetZoom"
    /\ opView' = "modal"
    /\ threw' = FALSE
    /\ UNCHANGED <<storeVars, threeScene, loops, playVars, viewVars, cameraVars, reportVars, shifted,
                   charts, modalChart, resizeTimers, toast>>
    /\ IF modalChart # "none"
       THEN /\ range' = Assign(range, "modal", "original")
            /\ zoomHistory' = Assign(zoomHistory, "modal",
                                     ClearedHistory(zoomHistory["modal"]))
       ELSE UNCHANGED <<zoomHistory, range>>

\* setTimeout(() => { modalChart.resize(); }, 100): one more callback is
\* deferred; beyond MaxTimers the count stays at MaxTimers
TimersAfterOpen(t) == Min(t + 1, MaxTimers)

\* .btn-fullscreen click, data-chart = name: openFullscreenModal(name, title)
OpenFullscreenModal(name) ==
    /\ name \in ChartNames
    /\ lastOp' = "openModal"
    /\ opView' = "none"
    /\ threw' = FALSE
    /\ UNCHANGED <<storeVars, threeScene, loops, playVars, viewVars, cameraVars, reportVars, shifted,
                   charts, zoomHistory>>
    /\ IF ~charts
       THEN /\ toast' = "Chart not available"
            /\ UNCHANGED <<modalChart, resizeTimers, range>>
       ELSE /\ modalChart' = name
            /\ resizeTimers' = TimersAfterOpen(resizeTimers)
            /\ range' = Assign(range, "modal", "original")
            /\ UNCHANGED toast

\* #modal-close click, Escape: closeFullscreenModal()
CloseFullscreenModal ==
    /\ lastOp' = "closeModal"
    /\ opView' = "none"
    /\ threw' = FALSE
    /\ modalChart' = "none"
    /\ range' = Assign(range, "modal", "none")
    /\ UNCHANGED resizeTimers
    /\ UNCHANGED <<storeVars, threeScene, loops, playVars, viewVars, cameraVars, reportVars, shifted,
                   charts, zoomHistory, toast>>

\* the callback openFullscreenModal deferred by 100 ms runs:
\* modalChart.resize(), a TypeError while modalChart is null
ResizeTimerFires ==
    /\ resizeTimers > 0
    /\ resizeTimers' = resizeTimers - 1
    /\ lastOp' = "resize"
    /\ opView' = "none"
    /\ threw' = (modalChart = "none")
    /\ UNCHANGED <<storeVars, threeScene, loops, playVars, viewVars, cameraVars, reportVars, shifted,
                   charts, modalChart, zoomHistory, range, toast>>

\* the fullscreen modal opened and closed on the charts of an analysis, the
\* deferred callbacks running at any time after their open
NextModal ==
    \/ \E nr \in RefLens \ {0}, nt \in TestLens \ {0} : LoadSample(nr, nt)
    \/ RunAnalysis
    \/ \E name \in ChartNames : OpenFullscreenModal(name)
    \/ CloseFullscreenModal
    \/ ResizeTimerFires
    \/ ModalResetZoom

NextZoom ==
    \/ LoadSample(MaxN, MaxN)
    \/ Shallow /\ RunAnalysis
    \/ \E v \in ZoomedViews : ZoomStart(v)
    \/ \E v \in ZoomedViews : Zoom(v)
    \/ \E name \in ZoomedCharts : BtnUndoZoom(name)
    \/ ModalUndoZoom
    \/ \E name \in ZoomedCharts : BtnResetZoom(name)
    \/ ModalResetZoom
    \/ Shallow /\ \E name \in ModalSources : OpenFullscreenModal(name)
    \/ CloseFullscreenModal

-----------------------------------------------------------------------------
(* The analysis functions applied to stores of up to MaxSamples samples *)

InitAnalysis ==
    /\ refStore \in RefStores
    /\ testStore \in TestStores
    /\ refData = Len(refStore)
    /\ testData = Len(testStore)
    /\ content = <<>>
    /\ parsed = EmptyData
    /\ reads = {}
    /\ selected = [reference |-> NoData, test |-> NoData]
    /\ threeScene = FALSE
    /\ loops = 0
    /\ sceneData = <<>>
    /\ nedLen = NoData
    /\ index = 0
    /\ isPlaying = FALSE
    /\ lastFrameTime = 0
    /\ sliderMax = InitialSliderMax
    /\ sliderValue = SliderMin
    /\ sliderDisabled = TRUE
    /\ planeVisible = FALSE
    /\ planeIndex = NoData
    /\ timeIndex = NoData
    /\ distance = DistanceInit
    /\ azimuth = AzimuthInit
    /\ elevation = ElevationInit
    /\ isDragging = FALSE
    /\ lastMouseX = 0
    /\ lastMouseY = 0
    /\ touchStartDistance = 0
    /\ nTouches = 0
    /\ errors = NoErrors
    /\ analysis = NoAnalysis
    /\ verdict = "none"
    /\ issues = <<>>
    /\ cards = [ref |-> "none", test |-> "none"]
    /\ testEuler = <<>>
    /\ charts = FALSE
    /\ modalChart = "none"
    /\ resizeTimers = 0
    /\ zoomHistory = [v \in Views |-> <<>>]
    /\ range = [v \in Views |-> "none"]
    /\ toast = "Loaded"
    /\ opView = "none"
    /\ shifted = FALSE
    /\ lastOp = "loadTest"
    /\ threw = FALSE

\* computePositionError(refData, testData)
ApplyComputePositionError ==
    /\ lastOp' = "computePositionError"
    /\ threw' = FALSE
    /\ errors' = ComputePositionError(refStore, testStore)
    /\ UNCHANGED <<storeVars, threeScene, loops, playVars, viewVars, cameraVars, analysis, verdict,
                   issues, cards, testEuler, chartVars, toast>>

\* renderVerdict(analyzeTrajectory(testData))
ApplyRenderVerdict ==
    /\ lastOp' = "renderVerdict"
    /\ threw' = FALSE
    /\ analysis' = AnalyzeTrajectory(testStore)
    /\ verdict' = VerdictTitle(analysis')
    /\ issues' = VerdictIssues(analysis')
    /\ UNCHANGED <<storeVars, threeScene, loops, playVars, viewVars, cameraVars, errors, cards,
                   testEuler, chartVars, toast>>

NextAnalysis ==
    \/ ApplyComputePositionError
    \/ ApplyRenderVerdict
    \/ RunAnalysis

\* the 3D view opened, analysed and reset on the loaded stores
NextScene ==
    \/ SwitchTab3D
    \/ RunAnalysis
    \/ ResetCamera

-----------------------------------------------------------------------------
(* Playback and chase camera together: the handlers of both, with one load,  *)
(* one scrub target, one drag path, one wheel notch and one pinch.           *)

FrameFrom == <<0, 0>>
FrameTo == <<XStep, YStep>>

NextFrame ==
    \/ LoadSample(MaxN, MaxN)
    \/ SwitchTab3D
    \/ RunAnalysis
    \/ ResetCamera
    \/ Scrub(MaxN - 1)
    \/ TogglePlay(0)
    \/ Tick(0)
    \/ MouseDown(FrameFrom[1], FrameFrom[2])
    \/ MouseMove(FrameTo[1], FrameTo[2])
    \/ MouseUp
    \/ MouseLeave
    \/ Wheel(WheelStep)
    \/ \E m \in 1..2 : TouchStart(m, FrameFrom, FrameTo)
    \/ TouchMove(FrameTo, FrameTo)
    \/ TouchEnd(0, FrameFrom)
    \/ TouchCancel(0)

-----------------------------------------------------------------------------
(* parseTrajectoryFile applied to texts of up to MaxRows data lines *)

InitParse ==
    /\ content \in Contents
    /\ parsed = EmptyData
    /\ reads = {}
    /\ selected = [reference |-> NoData, test |-> NoData]
    /\ refData = NoData
    /\ testData = NoData
    /\ refStore = <<>>
    /\ testStore = <<>>
    /\ threeScene = FALSE
    /\ loops = 0
    /\ sceneData = <<>>
    /\ nedLen = NoData
    /\ index = 0
    /\ isPlaying = FALSE
    /\ lastFrameTime = 0
    /\ sliderMax = InitialSliderMax
    /\ sliderValue = SliderMin
    /\ sliderDisabled = TRUE
    /\ planeVisible = FALSE
    /\ planeIndex = NoData
    /\ timeIndex = NoData
    /\ distance = DistanceInit
    /\ azimuth = AzimuthInit
    /\ elevation = ElevationInit
    /\ isDragging = FALSE
    /\ lastMouseX = 0
    /\ lastMouseY = 0
    /\ touchStartDistance = 0
    /\ nTouches = 0
    /\ errors = NoErrors
    /\ analysis = NoAnalysis
    /\ verdict = "none"
    /\ issues = <<>>
    /\ cards = [ref |-> "none", test |-> "none"]
    /\ testEuler = <<>>
    /\ charts = FALSE
    /\ modalChart = "none"
    /\ resizeTimers = 0
    /\ zoomHistory = [v \in Views |-> <<>>]
    /\ range = [v \in Views |-> "none"]
    /\ toast = "none"
    /\ opView = "none"
    /\ shifted = FALSE
    /\ lastOp = "init"
    /\ threw = FALSE

\* parseTrajectoryFile(content): no step of it can throw on a string
ApplyParseTrajectoryFile ==
    /\ lastOp' = "parseTrajectoryFile"
    /\ threw' = FALSE
    /\ parsed' = ParseTrajectoryFile(content)
    /\ UNCHANGED <<refData, testData, refStore, testStore, content, reads, selected, threeScene,
                   loops, playVars,
                   viewVars, cameraVars, reportVars, chartVars, toast>>

NextParse == ApplyParseTrajectoryFile

-----------------------------------------------------------------------------
(* quaternionToEuler applied to stores of one sample whose quaternion       *)
(* analyzeTrajectory finds normalized                                       *)

\* the multiples of 1/steps in [-1, 1]
QuatComponents(steps) == {k * (QuatScale \div steps) : k \in -steps..steps}

\* samples whose quaternion passes Math.abs(q - 1.0) < 0.01
UnitQuaternions(steps) ==
    {q \in {[Nominal EXCEPT !.qw = w, !.qx = x, !.qy = y, !.qz = z] :
               w \in QuatComponents(steps), x \in QuatComponents(steps),
               y \in QuatComponents(steps), z \in QuatComponents(steps)} :
        AnalyzeTrajectory(<<q>>).quatNormalized}

InitEuler ==
    /\ refStore = <<Nominal>>
    /\ testStore \in {<<q>> : q \in UnitQuaternions(MaxQuatSteps)}
    /\ refData = Len(refStore)
    /\ testData = Len(testStore)
    /\ content = <<>>
    /\ parsed = EmptyData
    /\ reads = {}
    /\ selected = [reference |-> NoData, test |-> NoData]
    /\ threeScene = FALSE
    /\ loops = 0
    /\ sceneData = <<>>
    /\ nedLen = NoData
    /\ index = 0
    /\ isPlaying = FALSE
    /\ lastFrameTime = 0
    /\ sliderMax = InitialSliderMax
    /\ sliderValue = SliderMin
    /\ sliderDisabled = TRUE
    /\ planeVisible = FALSE
    /\ planeIndex = NoData
    /\ timeIndex = NoData
    /\ distance = DistanceInit
    /\ azimuth = AzimuthInit
    /\ elevation = ElevationInit
    /\ isDragging = FALSE
    /\ lastMouseX = 0
    /\ lastMouseY = 0
    /\ touchStartDistance = 0
    /\ nTouches = 0
    /\ errors = NoErrors
    /\ analysis = NoAnalysis
    /\ verdict = "none"
    /\ issues = <<>>
    /\ cards = [ref |-> "none", test |-> "none"]
    /\ testEuler = <<>>
    /\ charts = FALSE
    /\ modalChart = "none"
    /\ resizeTimers = 0
    /\ zoomHistory = [v \in Views |-> <<>>]
    /\ range = [v \in Views |-> "none"]
    /\ toast = "Loaded"
    /\ opView = "none"
    /\ shifted = FALSE
    /\ lastOp = "loadTest"
    /\ threw = FALSE

\* const testEuler = quaternionToEuler(testData.qw, testData.qx, testData.qy, testData.qz)
ApplyQuaternionToEuler ==
    /\ lastOp' = "quaternionToEuler"
    /\ threw' = FALSE
    /\ testEuler' = QuaternionToEuler(testStore)
    /\ UNCHANGED <<storeVars, threeScene, loops, playVars, viewVars, cameraVars, errors,
                   analysis, verdict, issues, cards, chartVars, toast>>

NextEuler == ApplyQuaternionToEuler

Next == NextPlayback \/ NextCamera \/ NextZoom

SpecPlayback == Init /\ [][NextPlayback]_vars
\* the browser keeps delivering frames: every animate call requests the next
SpecFrames == Init /\ [][NextFrames]_vars /\ WF_vars(Tick(0))
SpecCamera == Init /\ [][NextCamera]_vars
SpecHover == Init /\ [][NextHover]_vars
SpecTouch == Init /\ [][NextTouch]_vars
SpecZoom == Init /\ [][NextZoom]_vars
SpecModal == Init /\ [][NextModal]_vars
SpecAnalysis == InitAnalysis /\ [][NextAnalysis]_vars
SpecFrame == Init /\ [][NextFrame]_vars
SpecScene == InitAnalysis /\ [][NextScene]_vars
SpecParse == InitParse /\ [][NextParse]_vars
SpecUpload == Init /\ [][NextUpload]_vars
SpecEuler == InitEuler /\ [][NextEuler]_vars
Spec == Init /\ [][Next]_vars

-----------------------------------------------------------------------------
(* Playback claims *)

\* C1: once a test trajectory is loaded, the playback index is always within
\* [0, N_test - 1], N_test being the length of the test store now loaded
\* (stated for a store that has samples: the interval is empty otherwise).
C1_IndexWithinStore ==
    (threeScene /\ testData >= 1) => index \in 0..(testData - 1)

\* C2: loading a new test trajectory (file upload or sample button) leaves the
\* playback at index 0 and Paused as part of the load itself.
C2_LoadResetsPlayback ==
    (threeScene /\ lastOp \in {"loadTest", "loadSample"}) => (index = 0 /\ ~isPlaying)

\* C3: togglePlay while the loaded test store is empty is a no-op: the state
\* remains Paused and the index is unchanged.
C3_TogglePlayOnEmptyStoreIsNoOp ==
    [][(lastOp' = "togglePlay" /\ testData = 0 /\ ~isPlaying)
          => (~isPlaying' /\ index' = index)]_vars

\* C4: scrub stores the requested index clamped to [0, N_test - 1] as the
\* current playback index.
C4_ScrubStoresClampedIndex ==
    [][(lastOp' = "scrub" /\ testData >= 1)
          => index' = Max(0, Min(sliderValue', testData - 1))]_vars

\* C5: a scrub leaves the controller Paused, whether it was Playing or Paused,
\* with the current index equal to the scrubbed index.
C5_ScrubLeavesPaused ==
    [][(lastOp' = "scrub" /\ testData # NoData)
          => (~isPlaying' /\ index' = sliderValue')]_vars

\* C6: togglePlay from Paused with N_test > 0 enters Playing, resetting the
\* index to 0 if it was at the last sample N_test - 1 and keeping it otherwise;
\* togglePlay from Playing enters Paused and keeps the index.
C6_TogglePlayTransitions ==
    [][/\ (lastOp' = "togglePlay" /\ ~isPlaying /\ testData >= 1)
             => (isPlaying' /\ index' = IF index = testData - 1 THEN 0 ELSE index)
       /\ (lastOp' = "togglePlay" /\ isPlaying)
             => (~isPlaying' /\ index' = index)]_vars

\* C7: a frame while Playing sets the index to min(N_test - 1, index + 5) and
\* pauses in that frame exactly when the new index is N_test - 1; a frame
\* while Paused changes neither index nor state.
C7_TickAdvancesByFive ==
    [][lastOp' = "tick" =>
          IF isPlaying /\ testData # NoData
          THEN /\ index' = Min(testData - 1, index + 5)
               /\ (~isPlaying' <=> index' = testData - 1)
          ELSE index' = index /\ isPlaying' = isPlaying]_vars

\* C8: within one tick or scrub (of a 3D view that has trajectories, the test
\* store holding samples, the step running to its end), the
\* slider position, the plane pose and the time readout are all updated from
\* the playback index that step stored.
C8_ViewsShowStoredIndex ==
    [][(/\ nedLen # NoData
        /\ testData >= 1
        /\ ~threw'
        /\ lastOp' = "scrub" \/ (lastOp' = "tick" /\ isPlaying))
          => (sliderValue' = index' /\ planeIndex' = index' /\ timeIndex' = index')]_vars

-----------------------------------------------------------------------------
(* Chase camera claims *)

\* C9: after any sequence of mouse drags and one-finger drags the elevation is
\* within [-pi/2 + 0.1, pi/2 - 0.1], hence strictly inside (-pi/2, pi/2).
C9_ElevationInsidePoles ==
    /\ ElevMin <= elevation /\ elevation <= ElevMax
    /\ -HalfPi < elevation /\ elevation < HalfPi

\* a one-finger drag has pushed the elevation against its lower limit
C9_ElevationAtLimit ==
    lastOp = "touchmove" /\ nTouches = 1 /\ isDragging /\ elevation = ElevMin

Saturated(d) ==
    IF d < DistanceMin THEN DistanceMin ELSE IF d > DistanceMax THEN DistanceMax ELSE d

\* C10: after any sequence of wheel and pinch events the distance is within
\* [5, 200], and each such event moves it by its scaled delta, saturating at
\* the nearer bound.
C10_DistanceWithinRange ==
    /\ [](DistanceMin <= distance /\ distance <= DistanceMax)
    /\ [][/\ lastOp' = "wheel"
             => \E deltaY \in WheelDeltas :
                    distance' = Saturated(distance + (deltaY * DistScale) \div 20)
          /\ (lastOp' = "touchmove" /\ nTouches = 2 /\ touchStartDistance > 0)
             => distance' = Saturated(distance
                    + ((touchStartDistance - touchStartDistance') * DistScale) \div 5)]_vars

\* a pinch has left the distance at its upper bound
C10_DistanceAtBound ==
    lastOp = "touchmove" /\ nTouches = 2 /\ distance = DistanceMax

-----------------------------------------------------------------------------
(* Zoom history claims *)

\* the 20 most recent entries of a stack h, in push order
MostRecent(h) ==
    IF Len(h) <= 20 THEN h ELSE SubSeq(h, Len(h) - 19, Len(h))

\* C11: whatever zoom-starts, undos and resets have happened, every view's
\* zoom-history stack holds at most 20 snapshots; a zoom-start leaves the stack
\* with the 20 most recent of the old entries and the new snapshot, in push
\* order, so on a stack of 20 it evicts the oldest.
C11_HistoryHoldsTwentyMostRecent ==
    /\ [](\A v \in Views : Len(zoomHistory[v]) <= 20)
    /\ [][lastOp' = "zoomStart" =>
            zoomHistory'[opView'] =
                MostRecent(Append(zoomHistory[opView'], range[opView']))]_vars

\* a zoom-start has just evicted the oldest snapshot of a full stack
C11_FullStackEvicted ==
    /\ lastOp = "zoomStart"
    /\ shifted
    /\ Len(zoomHistory[opView]) = 20

C14_NoCrossViewEffect ==
    [][lastOp' \in {"zoomStart", "undoZoom", "resetZoom"} =>
         \A w \in Views \ {opView'} :
            zoomHistory'[w] = zoomHistory[w] /\ range'[w] = range[w]]_vars

\* an undo on the attitude chart while the modal is zoomed and has a history
C14_UndoBesideZoomedModal ==
    /\ lastOp = "undoZoom"
    /\ opView = "attitude"
    /\ toast = "Undid zoom"
    /\ zoomHistory["modal"] # <<>>
    /\ range["modal"] = "zoomed"

-----------------------------------------------------------------------------
(* Analysis claims *)

\* the store st with the sample at index j (if it has one) replaced by x
WithSample(st, j, x) == [i \in 1..Len(st) |-> IF i = j THEN x ELSE st[i]]

\* the channels of an error series
Channels == {"north", "east", "down", "horizontal", "error3d"}

\* C15: computePositionError returns exactly min(N_ref, N_test) entries in
\* every error channel, and the entry at index i stays the same when any
\* sample other than sample i of the reference or of the test store is
\* replaced by another one.
C15_ErrorSeriesIsPerIndex ==
    lastOp = "computePositionError" =>
        /\ \A c \in Channels : Len(errors[c]) = Min(Len(refStore), Len(testStore))
        /\ \A c \in Channels, i \in 1..Min(Len(refStore), Len(testStore)) :
           \A j \in (1..MaxSamples) \ {i}, x \in Samples :
              /\ ComputePositionError(WithSample(refStore, j, x), testStore)[c][i]
                   = errors[c][i]
              /\ ComputePositionError(refStore, WithSample(testStore, j, x))[c][i]
                   = errors[c][i]

\* the error series of two stores of different lengths, the common entry
\* being non-zero
C15_UnequalLengths ==
    /\ lastOp = "computePositionError"
    /\ Len(refStore) > Len(testStore)
    /\ Len(errors.north) = 1
    /\ errors.north[1] # 0
    /\ errors.error3d[1] > 0

\* C16: when the reference and the test trajectory are identical and the
\* altitude, speed and quaternion checks pass, every entry of the north, east,
\* down, horizontal and 3D error series is zero and the verdict is
\* "PHYSICALLY REASONABLE" (for the functions applied on their own, and for an
\* analysis that ran to its end).
C16_IdenticalTrajectories ==
    refStore = testStore =>
        /\ (lastOp = "computePositionError" \/ (lastOp = "runAnalysis" /\ ~threw)) =>
              \A c \in Channels : \A i \in 1..Len(refStore) :
                 Len(errors[c]) = Len(refStore) /\ errors[c][i] = 0
        /\ (/\ lastOp = "renderVerdict" \/ (lastOp = "runAnalysis" /\ ~threw)
            /\ analysis.altReasonable
            /\ analysis.speedReasonable
            /\ analysis.quatNormalized) =>
              verdict = "PHYSICALLY REASONABLE"

\* an analysis of two identical trajectories of two different samples
C16_IdenticalAnalysed ==
    /\ lastOp = "runAnalysis"
    /\ ~threw
    /\ refStore = testStore
    /\ Len(refStore) = 2
    /\ refStore[1] # refStore[2]
    /\ verdict = "PHYSICALLY REASONABLE"

\* the entries of a sequence
Entries(q) == {q[k] : k \in 1..Len(q)}

\* C17: a test trajectory with a sample at 60000 m fails the altitude check,
\* its verdict is not "PHYSICALLY REASONABLE" and lists the altitude issue;
\* and the issue list has an entry for a check exactly when that check failed.
C17_IssuesMatchFailedChecks ==
    (lastOp = "renderVerdict" \/ (lastOp = "runAnalysis" /\ ~threw)) =>
        /\ (\E i \in 1..Len(testStore) : testStore[i].alt * LenUnit = 60000) =>
              /\ ~analysis.altReasonable
              /\ verdict # "PHYSICALLY REASONABLE"
              /\ "Altitude out of bounds" \in Entries(issues)
        /\ "Altitude out of bounds" \in Entries(issues) <=> ~analysis.altReasonable
        /\ "Speed too high" \in Entries(issues) <=> ~analysis.speedReasonable
        /\ "Quaternion not normalized" \in Entries(issues) <=> ~analysis.quatNormalized
        /\ Len(issues) = Cardinality(Entries(issues))
        /\ verdict = "PHYSICALLY REASONABLE" <=> issues = <<>>

\* the verdict of a test trajectory whose second sample is at 60000 m
C17_HighAltitudeListed ==
    /\ lastOp = "renderVerdict"
    /\ Len(testStore) = 2
    /\ testStore[1].alt * LenUnit = 100
    /\ testStore[2].alt * LenUnit = 60000
    /\ issues = <<"Altitude out of bounds">>

\* C18: the altitude check passes if and only if every sample's altitude is
\* within the closed interval [-1000, 50000] m, so a trajectory with a sample
\* at exactly -1000 m or 50000 m (and inside elsewhere) passes.
C18_AltitudeIntervalClosed ==
    lastOp = "renderVerdict" =>
        (analysis.altReasonable <=>
            \A i \in 1..Len(testStore) :
               /\ -1000 <= testStore[i].alt * LenUnit
               /\ testStore[i].alt * LenUnit <= 50000)

\* C19: the analysis of a store of length 0 completes without an exception
\* and reports "no data" in place of the summary statistics.
C19_EmptyStoreReportsNoData ==
    (lastOp = "runAnalysis" /\ Len(testStore) = 0 /\ Len(refStore) > 0) =>
        (~threw /\ cards.test = "no data" /\ ~analysis.speed.meanIsNaN)

\* C20: run-analysis while the reference store or the test store is absent
\* returns without changing the stores, the charts, the zoom histories, the
\* playback state, the 3D view or the chase-camera state.
C20_RejectedAnalysisMutatesNothing ==
    [][(lastOp' = "runAnalysis" /\ (refData = NoData \/ testData = NoData)) =>
          /\ ~threw'
          /\ UNCHANGED <<storeVars, threeScene, playVars, viewVars, cameraVars, reportVars,
                         charts, modalChart, zoomHistory, range>>]_vars

\* run-analysis was rejected for want of the reference store, while the test
\* store was playing
C20_RejectedWhilePlaying ==
    /\ lastOp = "runAnalysis"
    /\ refData = NoData
    /\ testData = MaxN
    /\ isPlaying
    /\ index = speedMultiplier

-----------------------------------------------------------------------------
(* Error-handling claims *)

\* C21: invoking run-analysis while the reference store or the test store is
\* absent produces a user-visible notice that the operation was rejected (the
\* notice on display before such a call is none or that of a load, so a
\* rejection notice changes it).
C21_RejectedAnalysisShowsNotice ==
    [][(lastOp' = "runAnalysis" /\ (refData = NoData \/ testData = NoData))
          => (toast' # toast /\ toast' # "none")]_vars

\* a step of run-analysis throws: renderAnalysisCard on the analysis of an
\* empty store
AnalysisStepThrows ==
    \/ RenderAnalysisCardThrows(AnalyzeTrajectory(refStore))
    \/ RenderAnalysisCardThrows(AnalyzeTrajectory(testStore))

\* C22: if a derived computation or rendering step throws during run-analysis,
\* the exception is caught at the analysis entry point, one error notice is
\* shown and no 'Analysis complete' notice, and the playback state and the
\* chase-camera state are those of before the call.
C22_AnalysisCatchesExceptions ==
    [][(/\ lastOp' = "runAnalysis"
        /\ refData # NoData /\ testData # NoData
        /\ AnalysisStepThrows)
          => /\ ~threw'
             /\ toast' \notin {toast, "none", "Analysis complete!"}
             /\ UNCHANGED <<playVars, distance, azimuth, elevation>>]_vars

-----------------------------------------------------------------------------
(* Parsing claims *)

\* the data lines of the text that have at least 17 fields, in their order
WellFormedRows(lines) ==
    SelectSeq(SubSeq(lines, 2, Len(lines)), LAMBDA line : Len(line) >= 17)

\* C23: parsing never raises on a malformed row: a data row with fewer than 17
\* fields contributes to no channel and a row with at least 17 fields
\* contributes exactly one value (that of its own column) to each of the 17
\* channels, so all channel arrays of the store have the same length, the
\* number of well-formed data rows.
C23_ChannelsHoldWellFormedRows ==
    lastOp = "parseTrajectoryFile" =>
        /\ ~threw
        /\ Cardinality(DOMAIN parsed) = 17
        /\ \A i \in 1..17 :
              /\ Len(parsed[ChannelNames[i]]) = Len(WellFormedRows(content))
              /\ \A j \in 1..Len(WellFormedRows(content)) :
                    parsed[ChannelNames[i]][j] = ParseFloat(WellFormedRows(content)[j][i])

\* a text was parsed whose rows are a short one and two well-formed ones, the
\* first of them of text that is no number
C23_MalformedRowsDropped ==
    /\ lastOp = "parseTrajectoryFile"
    /\ Len(content) = 4
    /\ content[2] = Row(16, "1")
    /\ content[3] = Row(17, "x")
    /\ content[4] = Row(MaxFields, "1")
    /\ parsed.time = <<NaN, 1>>
    /\ parsed.gz = <<NaN, 1>>

-----------------------------------------------------------------------------
(* 3D view claims *)

\* equal geodetic position
SamePosition(a, b) == a.lat = b.lat /\ a.lon = b.lon /\ a.alt = b.alt

\* C24: within one comparison run the local-tangent-plane coordinates of both
\* trajectories are computed against one common anchor, the first sample of the
\* reference, so a reference sample and a test sample of equal geodetic
\* position get equal north/east/down coordinates.
C24_CommonAnchor ==
    (nedLen # NoData /\ Len(refStore) > 0) =>
        /\ sceneData = [j \in 1..Len(testStore) |-> NedEntry(testStore[j], refStore[1])]
        /\ \A i \in 1..Len(refStore), j \in 1..Len(testStore) :
              SamePosition(refStore[i], testStore[j])
                 => RefNED(refStore, testStore)[i] = sceneData[j]

-----------------------------------------------------------------------------
(* Frame claims *)

\* C25: the playback state (index, playing) is changed only by scrub,
\* togglePlay, the per-frame tick and the loading of a new test trajectory;
\* every other handler, the reset-camera button among them, leaves index and
\* playing unchanged.
C25_PlaybackChangedOnlyByItsOperations ==
    [][(index' # index \/ isPlaying' # isPlaying)
          => lastOp' \in {"scrub", "togglePlay", "tick", "loadTest", "loadSample"}]_vars

\* the handlers init3DScene adds to the chase view
ChaseHandlers ==
    {"mousedown", "mousemove", "mouseup", "mouseleave", "wheel",
     "touchstart", "touchmove", "touchend", "touchcancel"}

\* C26: the chase camera state (distance, azimuth, elevation) is changed only
\* by the pointer, wheel and touch handlers of the chase view; playback ticks,
\* scrub, togglePlay, trajectory loads, run-analysis, tab switches and the
\* reset-camera button leave distance, azimuth and elevation unchanged.
C26_CameraChangedOnlyByItsHandlers ==
    [][(distance' # distance \/ azimuth' # azimuth \/ elevation' # elevation)
          => lastOp' \in ChaseHandlers]_vars

\* the camera was reset after the chase view had been rotated and zoomed out
C26_ResetAfterGestures ==
    /\ lastOp = "resetCamera"
    /\ nedLen = MaxN
    /\ distance > DistanceInit
    /\ azimuth > AzimuthInit
    /\ elevation > ElevationInit

\* C27: the rendering-loop callback is the sole driver of playback ticks:
\* after any sequence of tab switches, analyses, loads and camera resets
\* exactly one animation loop is registered (none before the 3D view exists),
\* so the index advances by at most one step of 5 per rendering frame, and
\* it advances nowhere but in that callback: apart from the user's scrub, the
\* other handlers change it only by rewinding it to 0.
C27_OneAnimationLoop ==
    /\ [](loops = IF threeScene THEN 1 ELSE 0)
    /\ [][lastOp' = "tick" => index' <= index + speedMultiplier]_vars
    /\ [][(index' # index /\ lastOp' \notin {"tick", "scrub"}) => index' = 0]_vars

\* a frame advanced the playback by 5, the analysis having run
C27_FrameAfterSwitches ==
    /\ lastOp = "tick"
    /\ loops = 1
    /\ charts
    /\ isPlaying
    /\ index = speedMultiplier

-----------------------------------------------------------------------------
(* Pointer claims *)

\* C30: a pointer-move changes azimuth and elevation only while a drag is
\* active, i.e. after a pointer-down and before the next pointer-up or
\* pointer-leave; a pointer-move outside a drag changes nothing in the chase
\* camera state.  Where no pointer-down ever happens no drag is ever active,
\* so there every pointer-move leaves the chase camera state as it was.
C30_MoveOutsideDragChangesNothing ==
    [][lastOp' = "mousemove"
          => UNCHANGED <<distance, azimuth, elevation, isDragging, lastMouseX, lastMouseY>>]_vars

-----------------------------------------------------------------------------
(* Termination claims *)

\* C29: under fair delivery of rendering frames and with no further user input
\* or load (from some point on every step is a frame), a playback that is
\* Playing with N_test >= 1 eventually becomes Paused; the frame that pauses it
\* leaves the index at N_test - 1; and the frames that follow leave it Paused
\* at that index.
C29_PlaybackRunsToTheEnd ==
    /\ <>[][lastOp' = "tick"]_vars => <>[](testData >= 1 => ~isPlaying)
    /\ [][(lastOp' = "tick" /\ testData >= 1 /\ isPlaying /\ ~isPlaying')
             => index' = testData - 1]_vars
    /\ [][(lastOp' = "tick" /\ ~isPlaying) => (~isPlaying' /\ index' = index)]_vars

\* a frame has paused the playback at the last sample of the longest store
C29_PausedAtEnd ==
    /\ lastOp = "tick"
    /\ testData = MaxN
    /\ nedLen = MaxN
    /\ ~isPlaying
    /\ index = MaxN - 1
    /\ sliderValue = MaxN - 1

\* the unit quaternion of the rotation yaw about z, then pitch about y, then
\* roll about x, for angles in degrees
EulerToQuaternion(e) ==
    LET one == QuatScale * QuatScale
        half(x) == (x * RightAngle) \div 180
        cr == CosOf(half(e.roll))
        sr == SinOf(half(e.roll))
        cp == CosOf(half(e.pitch))
        sp == SinOf(half(e.pitch))
        cy == CosOf(half(e.yaw))
        sy == SinOf(half(e.yaw))
        round(v) == (v + one \div 2) \div one
    IN  [Nominal EXCEPT !.qw = round(cr * cp * cy + sr * sp * sy),
                        !.qx = round(sr * cp * cy - cr * sp * sy),
                        !.qy = round(cr * sp * cy + sr * cp * sy),
                        !.qz = round(cr * cp * sy - sr * sp * cy)]

\* the pitch is not plus or minus 90 degrees
AwayFromPole(e) == Abs(e.pitch) < 90

\* C28: for every normalized quaternion whose pitch is away from the gimbal
\* pole, the quaternion rebuilt from the roll, pitch and yaw quaternionToEuler
\* computed gives the same roll, pitch and yaw under quaternionToEuler.
C28_EulerRoundTrip ==
    lastOp = "quaternionToEuler" =>
        \A i \in 1..Len(testEuler) :
            AwayFromPole(testEuler[i]) =>
                EulerOf(EulerToQuaternion(testEuler[i])) = testEuler[i]

\* quaternionToEuler has computed a negative roll, a pitch that is neither
\* level nor at the pole and a yaw beyond 90 degrees from a quaternion whose
\* scalar part is negative
C28_TiltedAttitudeComputed ==
    /\ lastOp = "quaternionToEuler"
    /\ testStore[1].qw < 0
    /\ testEuler[1].roll < 0
    /\ testEuler[1].pitch \notin {0, 90, -90}
    /\ testEuler[1].yaw > 90

\* C31: a touchmove with one active touch leaves the distance alone; a
\* touchmove with two active touches leaves azimuth and elevation alone and
\* moves the distance, within its limits, by the scaled difference of the
\* inter-touch distance on record and the new one, a distance being on record
\* (two fingers are never at one point); lifting one of two fingers changes no
\* camera angle or distance and leaves the remaining finger dragging.
C31_TouchGestures ==
    /\ [][(lastOp' = "touchmove" /\ nTouches = 1) =>
             UNCHANGED <<distance, touchStartDistance>>]_vars
    /\ [][(lastOp' = "touchmove" /\ nTouches = 2) =>
             /\ UNCHANGED <<azimuth, elevation>>
             /\ touchStartDistance > 0
             /\ distance' = ClampDistance(distance
                   + PinchDelta(touchStartDistance - touchStartDistance'))]_vars
    /\ [][(lastOp' = "touchend" /\ nTouches = 2 /\ nTouches' = 1) =>
             /\ isDragging'
             /\ UNCHANGED <<distance, azimuth, elevation>>]_vars

\* C32: the down component of the position error at index i is the
\* difference of the down coordinates convertToNED gives the test sample and
\* the reference sample about a common origin, -(alt_test[i] - alt_ref[i]).
C32_DownErrorFollowsNED ==
    lastOp = "computePositionError" =>
        \A i \in 1..Len(errors.down) :
            /\ errors.down[i] = -(testStore[i].alt - refStore[i].alt)
            /\ errors.down[i] = NedEntry(testStore[i], refStore[1]).down
                                  - NedEntry(refStore[i], refStore[1]).down

\* C33: after every tick, scrub, togglePlay and trajectory update that ran to
\* its end on a loaded test store shown in the 3D view, the slider, the plane
\* pose and the time readout are at the stored playback index.
C33_ViewsShowStoredIndex ==
    (/\ lastOp \in {"tick", "scrub", "togglePlay", "switchTab", "runAnalysis", "resetCamera"}
     /\ ~threw
     /\ threeScene
     /\ testData >= 1
     /\ nedLen = testData) =>
        /\ sliderValue = index
        /\ planeIndex = index
        /\ timeIndex = index

\* C34: whenever a scrub or a playing frame updates the plane pose, the NED
\* series the 3D view holds is the one of the current test store, so it has as
\* many entries as the store has samples.
C34_PoseFromOneStore ==
    [][((lastOp' = "scrub" \/ (lastOp' = "tick" /\ isPlaying))
           /\ testData # NoData /\ nedLen # NoData) =>
          /\ nedLen = testData
          /\ sceneData = TestNED(refStore, testStore)]_vars

\* C35: a modal chart that has just been opened has an empty stack, so the
\* stack never holds a snapshot captured from the chart of an earlier modal
\* session.
C35_ModalStackStartsEmpty ==
    [][(lastOp' = "openModal" /\ modalChart' # "none") =>
          zoomHistory'["modal"] = <<>>]_vars

\* C36: an analysis that ran to its end, and so rebuilt the attitude,
\* velocity, error and AoA charts, leaves each of these views with an empty
\* zoom history.
C36_ReanalysisClearsHistories ==
    [][(lastOp' = "runAnalysis" /\ ~threw' /\ charts') =>
          \A name \in ChartNames : zoomHistory'[name] = <<>>]_vars

\* C37: in every chart an analysis built, each dataset has as many points as
\* the chart has labels, and the k-th point of a series derived from the test
\* store is of the sample the k-th label is of.
C37_DatasetsMatchLabels ==
    (lastOp = "runAnalysis" /\ ~threw) =>
        \A name \in ChartNames :
            /\ TestSeries(name, refStore, testStore) = ChartLabels(name, refStore, testStore)
            /\ \A d \in RefSeries(name, refStore, testStore) :
                  Len(d) = Len(ChartLabels(name, refStore, testStore))

\* the store held for the upload type
HeldFor(type) == IF type = "reference" THEN refData ELSE testData

\* C38: once every read started for a slot has completed, the store held for
\* the slot is the one of the file selected last for it (the file name shown
\* is assigned together with the store).
C38_LastSelectedFileWins ==
    \A type \in UploadTypes :
        (selected[type] # NoData /\ ~\E r \in reads : r.type = type) =>
            HeldFor(type) = selected[type]

\* C39: the modal chart exists whenever the resize callback deferred by
\* openFullscreenModal runs.
C39_ResizeFindsModalChart ==
    [][lastOp' = "resize" => (modalChart # "none" /\ ~threw')]_vars

====
